---- MODULE Spec2Model ----
(***************************************************************************)
(* Model of the weather-outfit orchestrator (weather_outfit_ai):           *)
(*   OutfitOrchestrator.process_request and the five agents it sequences,  *)
(*   with the Outfit Composer's free-text resolution modelled on strings   *)
(*   represented as sequences of one-character strings.                    *)
(***************************************************************************)
EXTENDS Integers, Sequences, FiniteSets, TLC

VARIABLES
    pc,                  \* position of the request inside process_request
    state,               \* the AgentState of the request in flight
    flow,                \* the _run_*_flow chosen by process_request
    trace,               \* stages invoked so far in this request (history variable)
    recovered,           \* local recoveries taken in this request (history variable)
    escaped,             \* message of the exception that escaped a stage, or NoError
    conversation_memory, \* OutfitOrchestrator.conversation_memory
    thread_id,           \* thread_id argument of the request in flight
    user_message,        \* user_message argument of the request in flight
    nreq,                \* number of process_request calls started
    wardrobe,            \* content of the Wardrobe Index, in ranked order (for
                         \* populate_wardrobe: the items of the collection)
    action,              \* local variable action of process_request (line 86)
    routing,             \* how the router's two model calls answered (history variable)
    composer_text,       \* free text the composer's fallback parsed (history variable)
    answered,            \* what the geocoder and the model calls of the weather and
                         \* response stages answered, and the histories handed to
                         \* plan and to respond (history variable)
    inflight,            \* the process_request coroutines of the clients
    exchanges,           \* per thread, the exchanges of the requests that completed,
                         \* in completion order (history variable)
    cli_history,         \* the list conversation_history of the CLI's chat loop
    csvfile,             \* the rows of the CSV file last given to
                         \* populate_wardrobe_from_csv
    twin                 \* a second orchestrator given the same request: its stored
                         \* memory, the state it returned and the history it was passed

\* the variables of the programs around the orchestrator (cli.py,
\* utils/populate_wardrobe.py) and of the second orchestrator
tools == <<cli_history, csvfile, twin>>

\* the variables of the clients running process_request concurrently
clients == <<inflight, exchanges, tools>>

\* the variables of the one request followed stage by stage
pipeline ==
    <<pc, state, flow, trace, recovered, escaped, thread_id, user_message,
      wardrobe, action, routing, composer_text, answered, tools>>

vars == <<pc, state, flow, trace, recovered, escaped, conversation_memory,
          thread_id, user_message, nreq, wardrobe, action, routing, composer_text,
          answered, inflight, exchanges, cli_history, csvfile, twin>>

(***************************************************************************)
(* Bounds of the model.                                                    *)
(***************************************************************************)
MaxRequests == 1
MaxFields == 6
MaxIndexSize == 3
MaxHistory == 22
MaxTurns == 6
MaxRuns == 3
MaxRows == 2
MaxAsks == 2

(***************************************************************************)
(* Strings: sequences of one-character strings.                            *)
(***************************************************************************)
LowerChar(c) ==
    CASE c = "A" -> "a"
      [] c = "B" -> "b"
      [] c = "C" -> "c"
      [] c = "N" -> "n"
      [] OTHER -> c

\* str.lower()
lower(s) == [i \in 1..Len(s) |-> LowerChar(s[i])]

\* Python's `sub in s` on strings
Contains(s, sub) ==
    \E i \in 0..(Len(s) - Len(sub)) : SubSeq(s, i + 1, i + Len(sub)) = sub

RECURSIVE lstrip(_)
lstrip(s) == IF s # <<>> /\ Head(s) = " " THEN lstrip(Tail(s)) ELSE s

RECURSIVE rstrip(_)
rstrip(s) ==
    IF s # <<>> /\ s[Len(s)] = " " THEN rstrip(SubSeq(s, 1, Len(s) - 1)) ELSE s

\* str.strip()
strip(s) == rstrip(lstrip(s))

\* str.split(sep) for a one-character separator
RECURSIVE split(_, _)
split(s, sep) ==
    IF \A i \in 1..Len(s) : s[i] # sep
    THEN <<s>>
    ELSE LET k == CHOOSE i \in 1..Len(s) :
                      s[i] = sep /\ \A j \in 1..(i - 1) : s[j] # sep
         IN  <<SubSeq(s, 1, k - 1)>> \o split(SubSeq(s, k + 1, Len(s)), sep)

\* sep.join(fields)
RECURSIVE join(_, _)
join(fields, sep) ==
    IF fields = <<>> THEN <<>>
    ELSE IF Len(fields) = 1 THEN fields[1]
    ELSE fields[1] \o <<sep>> \o join(Tail(fields), sep)

STR_NONE == <<"n", "o", "n", "e">>
STR_NOT_NEEDED == <<"n", "o", "t", " ", "n", "e", "e", "d", "e", "d">>
STR_None == <<"N", "o", "n", "e">>

(***************************************************************************)
(* Domain values.                                                          *)
(***************************************************************************)
\* Python's None for a string-valued field
None == "<None>"

\* PersonalClothingItem (schemas.py), reduced to identity, name and category
Item(i, n, c) == [id |-> i, name |-> n, category |-> c]

\* None in a slot of type PersonalClothingItem | None
NoItem == Item(0, <<>>, None)

\* a str left in a slot by _validate_and_populate_outfit (empty str is falsy)
EmptyStrSlot == Item(-1, <<>>, "str")

Shirt == Item(1, <<"A", "b">>, "tops")
Jeans == Item(2, <<"b">>, "bottoms")
Boot == Item(3, <<"a">>, "footwear")
Coat == Item(4, <<"a", "b">>, "outerwear")
Scarf == Item(5, <<"c">>, "accessories")
Hat == Item(6, <<"b", "c">>, "accessories")
\* an item the model makes up: it is in no wardrobe
Invented == Item(99, <<"z">>, "tops")

\* WardrobeSelection (schemas.py)
Selection(tops, bottoms, footwear, outerwear, accessories, reasoning) ==
    [available_tops |-> tops, available_bottoms |-> bottoms,
     available_footwear |-> footwear, available_outerwear |-> outerwear,
     available_accessories |-> accessories, selection_reasoning |-> reasoning]

\* None in AgentState.wardrobe_selection
NoSelection == Selection(<<>>, <<>>, <<>>, <<>>, <<>>, None)

\* OutfitRecommendation (schemas.py)
Outfit(top, bottom, footwear, outerwear, accessories, description) ==
    [selected_top |-> top, selected_bottom |-> bottom,
     selected_footwear |-> footwear, selected_outerwear |-> outerwear,
     selected_accessories |-> accessories, outfit_description |-> description]

\* None in AgentState.final_recommendation
NoOutfit == Outfit(NoItem, NoItem, NoItem, NoItem, <<>>, None)

Range(f) == {f[i] : i \in DOMAIN f}

(***************************************************************************)
(* DesignAgent (agents/design_agent.py).                                   *)
(***************************************************************************)
\* all_items[key] = item on an insertion-ordered dict, kept as a sequence
\* of <<key, item>> pairs
DictSet(d, key, item) ==
    IF \E i \in 1..Len(d) : d[i][1] = key
    THEN [i \in 1..Len(d) |-> IF d[i][1] = key THEN <<key, item>> ELSE d[i]]
    ELSE Append(d, <<key, item>>)

RECURSIVE DictSetAll(_, _)
DictSetAll(d, items) ==
    IF items = <<>> THEN d
    ELSE DictSetAll(DictSet(d, lower(Head(items).name), Head(items)), Tail(items))

_create_item_lookup(w) ==
    DictSetAll(<<>>, w.available_tops \o w.available_bottoms
                     \o w.available_footwear \o w.available_outerwear
                     \o w.available_accessories)

\* _find_item_by_name with a fault: the exact lookup is skipped
_find_item_by_name_without_exact_match(name_text, all_items) ==
    LET low == lower(name_text)
        hits == {i \in 1..Len(all_items) :
                    Contains(all_items[i][1], low) \/ Contains(low, all_items[i][1])}
    IN  IF name_text = <<>> \/ low \in {STR_NONE, STR_NOT_NEEDED, <<>>}
        THEN NoItem
        ELSE IF hits # {}
        THEN all_items[CHOOSE i \in hits : \A j \in hits : i <= j][2]
        ELSE NoItem

_find_item_by_name(name_text, all_items) ==
    LET low == lower(name_text)
        hits == {i \in 1..Len(all_items) :
                    Contains(all_items[i][1], low) \/ Contains(low, all_items[i][1])}
    IN  IF name_text = <<>> \/ low \in {STR_NONE, STR_NOT_NEEDED, <<>>}
        THEN NoItem
        ELSE IF \E i \in 1..Len(all_items) : all_items[i][1] = low
        THEN all_items[CHOOSE i \in 1..Len(all_items) : all_items[i][1] = low][2]
        ELSE IF hits # {}
        THEN all_items[CHOOSE i \in hits : \A j \in hits : i <= j][2]
        ELSE NoItem

\* ParseAccessories with a fault: the loop stops at the first token that
\* names no candidate
RECURSIVE ParseAccessories_stopping_at_unmatched(_, _)
ParseAccessories_stopping_at_unmatched(names, all_items) ==
    IF names = <<>> THEN <<>>
    ELSE LET acc_item == _find_item_by_name(strip(Head(names)), all_items)
         IN  IF acc_item # NoItem
             THEN <<acc_item>> \o
                  ParseAccessories_stopping_at_unmatched(Tail(names), all_items)
             ELSE <<>>

\* the accessory loop of _parse_outfit_response (lines 124-127)
RECURSIVE ParseAccessories(_, _)
ParseAccessories(names, all_items) ==
    IF names = <<>> THEN <<>>
    ELSE LET acc_item == _find_item_by_name(strip(Head(names)), all_items)
             rest == ParseAccessories(Tail(names), all_items)
         IN  IF acc_item # NoItem THEN <<acc_item>> \o rest ELSE rest

\* _parse_outfit_response with a fault: a short answer is padded with "None"
\* instead of being discarded
_parse_outfit_response_padded(response, w) ==
    LET all_items == _create_item_lookup(w)
        split_parts == split(strip(response), "|")
        parts == IF Len(split_parts) < 5
                 THEN split_parts \o [i \in 1..(5 - Len(split_parts)) |-> STR_None]
                 ELSE split_parts
    IN  Outfit(_find_item_by_name(parts[1], all_items),
               _find_item_by_name(parts[2], all_items),
               _find_item_by_name(parts[3], all_items),
               _find_item_by_name(parts[4], all_items),
               IF parts[5] # <<>> /\ lower(parts[5]) # STR_NONE
               THEN ParseAccessories(split(parts[5], ","), all_items)
               ELSE <<>>,
               "Complete outfit selected from your wardrobe.")

_parse_outfit_response(response, w) ==
    LET all_items == _create_item_lookup(w)
        split_parts == split(strip(response), "|")
        parts == IF Len(split_parts) # 5
                 THEN <<STR_None, STR_None, STR_None, STR_None, STR_None>>
                 ELSE split_parts
    IN  Outfit(_find_item_by_name(parts[1], all_items),
               _find_item_by_name(parts[2], all_items),
               _find_item_by_name(parts[3], all_items),
               _find_item_by_name(parts[4], all_items),
               IF parts[5] # <<>> /\ lower(parts[5]) # STR_NONE
               THEN ParseAccessories(split(parts[5], ","), all_items)
               ELSE <<>>,
               "Complete outfit selected from your wardrobe.")

\* A slot of the structured model output before validation: None, a str
\* naming an item, or a PersonalClothingItem object built by the model.
SlotNone == [kind |-> "none", text |-> <<>>, item |-> NoItem]
SlotStr(s) == [kind |-> "str", text |-> s, item |-> NoItem]
SlotItem(it) == [kind |-> "item", text |-> <<>>, item |-> it]

\* lines 57-67: `if outfit.selected_x and isinstance(outfit.selected_x, str)`
ValidateSlot(v, all_items) ==
    CASE v.kind = "none" -> NoItem
      [] v.kind = "str" -> IF v.text # <<>>
                           THEN _find_item_by_name(v.text, all_items)
                           ELSE EmptyStrSlot
      [] OTHER -> v.item

\* lines 70-78
RECURSIVE ValidateAccessories(_, _)
ValidateAccessories(accs, all_items) ==
    IF accs = <<>> THEN <<>>
    ELSE LET acc == Head(accs)
             rest == ValidateAccessories(Tail(accs), all_items)
         IN  IF acc.kind = "str"
             THEN LET acc_item == _find_item_by_name(acc.text, all_items)
                  IN  IF acc_item # NoItem THEN <<acc_item>> \o rest ELSE rest
             ELSE IF acc.kind = "item" THEN <<acc.item>> \o rest
             ELSE rest

_validate_and_populate_outfit(outfit, w) ==
    LET all_items == _create_item_lookup(w)
    IN  Outfit(ValidateSlot(outfit.selected_top, all_items),
               ValidateSlot(outfit.selected_bottom, all_items),
               ValidateSlot(outfit.selected_footwear, all_items),
               ValidateSlot(outfit.selected_outerwear, all_items),
               ValidateAccessories(outfit.selected_accessories, all_items),
               outfit.outfit_description)

(***************************************************************************)
(* AgentState (models/state.py) and the values of its fields.              *)
(***************************************************************************)
\* None in AgentState.weather_data
NoWeather == [location |-> None, temperature |-> 0, description |-> None]

\* WeatherData built by WeatherService.get_weather (lines 47-56)
WeatherData(location) ==
    [location |-> location, temperature |-> 18, description |-> "clear sky"]

\* None in AgentState.response; a response is a sequence of characters
NoResponse == <<None>>

\* outfit_orchestrator.py line 106
APOLOGY ==
    <<"I apologize, but I encountered an error processing your request. Please try again.">>

\* conversation_agent.py line 106
RESPOND_APOLOGY ==
    <<"I apologize, but I couldn't generate a proper response. Please try again.">>

\* dict.get(key, default)
Get(d, key, default) == IF key \in DOMAIN d THEN d[key] ELSE default

\* dict.update(other)
Update(d, other) == other @@ d

\* the AgentState constructed at lines 76-79
NewState(conversation_history, message) ==
    [location |-> None,
     followup_context |-> None,
     weather_data |-> NoWeather,
     wardrobe_selection |-> NoSelection,
     final_recommendation |-> NoOutfit,
     response |-> NoResponse,
     conversation_history |-> conversation_history,
     errors |-> <<>>,
     metadata |-> [user_message |-> message]]

\* no exception escaped
NoError == "<no error>"

\* f"Error processing request: {str(e)}" (line 104)
ErrorEntry(msg) == [prefix |-> "Error processing request: ", message |-> msg]

(***************************************************************************)
(* Inputs of the model: what the caller and the collaborators may supply.  *)
(***************************************************************************)
Messages == {"What should I wear?", "Hi!"}
Threads == {"default", "t2"}
\* a history longer than the orchestrator's own memory (MaxHistory strings)
LongHistory ==
    [i \in 1..MaxHistory |-> IF i % 2 = 1 THEN "User: Hi!" ELSE "Bot: Hello"]
Histories == {<<>>, LongHistory}

\* f"User: {text}" and f"Bot: {text}" for the texts of the model
Prefixed(prefix, text) ==
    CASE prefix = "User: " /\ text = "Hi!" -> "User: Hi!"
      [] prefix = "User: " /\ text = "What should I wear?" -> "User: What should I wear?"
      [] prefix = "Bot: " /\ text = "Hello" -> "Bot: Hello"
      [] OTHER -> "<other text>"

\* str.replace(prefix, "") on the utterances of the model: an utterance
\* without the prefix is left as it is
Unprefixed(prefix, utterance) ==
    CASE prefix = "User: " /\ utterance = "User: Hi!" -> "Hi!"
      [] prefix = "User: " /\ utterance = "User: What should I wear?" -> "What should I wear?"
      [] prefix = "Bot: " /\ utterance = "Bot: Hello" -> "Hello"
      [] OTHER -> utterance

\* the history handed to plan and to respond: the strings of
\* state.conversation_history taken two by two, an unpaired last one left out
PairUp(conversation_history) ==
    [k \in 1..(Len(conversation_history) \div 2) |->
        [user |-> Unprefixed("User: ", conversation_history[2 * k - 1]),
         bot |-> Unprefixed("Bot: ", conversation_history[2 * k])]]

\* location and followup_context extracted by the router
LocationsAndContexts ==
    {<<None, None>>, <<"Paris", "business meeting">>, <<"Atlantis", None>>}
\* the four routed actions, and labels of the router prompt outside them
KnownActions ==
    {"full_recommendation", "weather_only", "wardrobe_only", "conversation_only"}
RouterActions == KnownActions \cup {"chitchat"}

(***************************************************************************)
(* Answers of the language model.  A call either raises or returns; the    *)
(* content of an unstructured answer is a str or not, and a str is either  *)
(* not JSON, JSON for an object (dict), or JSON for another value.         *)
(***************************************************************************)
Raise == [kind |-> "raise"]
Ok(v) == [kind |-> "ok", value |-> v]
NonStr == [kind |-> "nonstr"]
NotJson == [kind |-> "str", json |-> "invalid"]
JsonDict(d) == [kind |-> "str", json |-> "dict", value |-> d]
JsonOther == [kind |-> "str", json |-> "other"]

\* result of a call that may raise
Returned(v) == [raised |-> FALSE, value |-> v, fellback |-> FALSE]
Fellback(v) == [raised |-> FALSE, value |-> v, fellback |-> TRUE]
Raised(msg) == [raised |-> TRUE, error |-> msg]

\* the second, unstructured call is made only when the structured call
\* raised; otherwise there is no second answer to choose
SecondCall(structured, answers) ==
    IF structured.kind = "ok" THEN {Raise} ELSE answers

EmptyDict == [k \in {} |-> None]

\* the kinds of the two answers of a structured call and its fallback call
Routing(structured, unstructured) ==
    [structured |-> structured.kind,
     unstructured |-> IF structured.kind = "ok" THEN "not called"
                      ELSE IF unstructured.kind = "raise" THEN "raise"
                      ELSE IF unstructured.value.kind = "nonstr" THEN "nonstr"
                      ELSE unstructured.value.json]

NotRouted == [structured |-> None, unstructured |-> None]

\* a structured call and its fallback call that were not made
NotCalled == [structured |-> None, unstructured |-> None]

\* the kinds of the two answers of a structured call and of its fallback
\* call when the fallback answer is read as text
ReplyCalls(structured, unstructured) ==
    [structured |-> structured.kind,
     unstructured |-> IF structured.kind = "ok" THEN "not called"
                      ELSE IF unstructured.kind = "raise" THEN "raise"
                      ELSE IF unstructured.value.kind = "nonstr" THEN "nonstr"
                      ELSE IF strip(unstructured.value.text) = <<>> THEN "blank"
                      ELSE "text"]

\* nothing was asked of the geocoder or of the model yet
NoAnswers ==
    [geo |-> None, analysis |-> NotCalled, reply |-> NotCalled,
     router_history |-> <<>>, reply_history |-> <<>>]

\* no client runs process_request
NoClients == <<>>

\* the chat loop and the wardrobe script have not run, and there is no
\* second orchestrator
NoTools ==
    /\ cli_history = <<>>
    /\ csvfile = <<>>
    /\ twin = EmptyDict

\* process_request has not read the routed action yet
NoAction == "<not routed>"

\* no free text was parsed by the composer
NoText == <<None>>

\* a JSON value that is not an object
NotADict == [k \in {"<not a dict>"} |-> TRUE]
IsDict(v) == "<not a dict>" \notin DOMAIN v

(***************************************************************************)
(* SupervisorAgent.plan (agents/supervisor_agent.py).                      *)
(***************************************************************************)
\* lines 78-85
FallbackPlan(message) ==
    [action |-> "full_recommendation",
     location |-> None,
     followup_context |-> None,
     original_message |-> message,
     reasoning |-> "Fallback to full recommendation due to parsing error",
     confidence |-> "0.5"]

PlanKeys == {"action", "location", "followup_context", "original_message"}

\* lines 68-70
FillPlanKeys(data) ==
    [k \in DOMAIN data \cup PlanKeys |-> IF k \in DOMAIN data THEN data[k] ELSE None]

\* structured: answer of structured_llm.ainvoke; unstructured: answer of
\* the second call, self.llm.ainvoke
plan(message, structured, unstructured) ==
    IF structured.kind = "ok" THEN Returned(structured.value)
    ELSE IF unstructured.kind = "raise" THEN Raised("llm call failed")
    ELSE IF unstructured.value.kind = "str" /\ unstructured.value.json = "dict"
    THEN Returned(FillPlanKeys(unstructured.value.value))
    ELSE IF unstructured.value.kind = "str" /\ unstructured.value.json = "other"
    THEN Raised("TypeError")
    ELSE Fellback(FallbackPlan(message))

\* what the model may answer to the router
StructuredPlans(message) ==
    {[action |-> a, location |-> lc[1], followup_context |-> lc[2],
      original_message |-> message, reasoning |-> "llm", confidence |-> "0.9"] :
        a \in RouterActions, lc \in LocationsAndContexts}

JsonPlans(message) ==
    {EmptyDict,
     [action |-> "weather_only", location |-> "Paris"],
     [action |-> "unknown", original_message |-> message],
     [action |-> "conversation_only", location |-> None,
      followup_context |-> None, original_message |-> "rephrased"]}

StructuredPlanAnswers(message) == {Raise} \cup {Ok(p) : p \in StructuredPlans(message)}

UnstructuredPlanAnswers(message) ==
    {Raise, Ok(NonStr), Ok(NotJson), Ok(JsonOther)}
        \cup {Ok(JsonDict(d)) : d \in JsonPlans(message)}

(***************************************************************************)
(* OutfitOrchestrator (orchestrator/outfit_orchestrator.py).               *)
(***************************************************************************)
\* lines 125-139 of _run_supervisor
ApplyPlan(s, plan_result) ==
    LET message == Get(s.metadata, "user_message", "")
    IN  IF plan_result # EmptyDict
        THEN [s EXCEPT
                !.location = Get(plan_result, "location", None),
                !.followup_context = Get(plan_result, "followup_context", None),
                !.metadata = Update(@,
                    [action |-> Get(plan_result, "action", "full_recommendation"),
                     user_message |-> Get(plan_result, "original_message", message),
                     supervisor_reasoning |-> plan_result])]
        ELSE [s EXCEPT
                !.metadata = Update(@, [action |-> "full_recommendation",
                                        user_message |-> message])]

\* the stage sequences of the four _run_*_flow methods
_run_full_recommendation_flow == <<"weather", "wardrobe", "design", "conversation">>

_run_weather_only_flow == <<"weather", "conversation">>
_run_wardrobe_only_flow == <<"wardrobe", "conversation">>
_run_conversation_only_flow == <<"conversation">>

\* Dispatch with a fault: the conversation_only branch is missing
Dispatch_without_conversation_branch(a) ==
    CASE a = "full_recommendation" -> _run_full_recommendation_flow
      [] a = "weather_only" -> _run_weather_only_flow
      [] a = "wardrobe_only" -> _run_wardrobe_only_flow
      [] OTHER -> _run_full_recommendation_flow

\* lines 86-98: the flow process_request dispatches to
Dispatch(a) ==
    CASE a = "full_recommendation" -> _run_full_recommendation_flow
      [] a = "weather_only" -> _run_weather_only_flow
      [] a = "wardrobe_only" -> _run_wardrobe_only_flow
      [] a = "conversation_only" -> _run_conversation_only_flow
      [] OTHER -> _run_full_recommendation_flow

\* the stage that follows `stage` in the flow, or "end"
NextStage(f, stage) ==
    LET i == CHOOSE k \in 1..Len(f) : f[k] = stage
    IN  IF i < Len(f) THEN f[i + 1] ELSE "end"

\* program constant: messages kept per thread (line 197)
MaxMemory == 20

\* _update_conversation_memory with a fault: the slice keeps the oldest
\* messages ([:20] for [-20:])
_update_conversation_memory_keeping_oldest(memory, thread, message, response) ==
    LET old == IF thread \in DOMAIN memory THEN memory[thread] ELSE <<>>
        new == old \o <<[role |-> "User", text |-> <<message>>],
                        [role |-> "Bot", text |-> response]>>
    IN  (thread :> (IF Len(new) > MaxMemory
                    THEN SubSeq(new, 1, MaxMemory)
                    ELSE new)) @@ memory

\* _update_conversation_memory with a fault: the thread's list is assigned
\* the new pair instead of being extended with it
_update_conversation_memory_replacing(memory, thread, message, response) ==
    (thread :> <<[role |-> "User", text |-> <<message>>],
                 [role |-> "Bot", text |-> response]>>) @@ memory

\* lines 186-198
_update_conversation_memory(memory, thread, message, response) ==
    LET old == IF thread \in DOMAIN memory THEN memory[thread] ELSE <<>>
        new == old \o <<[role |-> "User", text |-> <<message>>],
                        [role |-> "Bot", text |-> response]>>
    IN  (thread :> (IF Len(new) > MaxMemory
                    THEN SubSeq(new, Len(new) - MaxMemory + 1, Len(new))
                    ELSE new)) @@ memory

\* A stage returned s2 normally: go on with the flow; after the last stage
\* process_request updates the memory (lines 100-101) and returns.
StageReturns(s2, stage) ==
    /\ state' = s2
    /\ escaped' = escaped
    /\ IF NextStage(flow, stage) = "end"
       THEN /\ pc' = "returned"
            /\ conversation_memory' =
                   _update_conversation_memory(conversation_memory, thread_id,
                       user_message,
                       IF s2.response = NoResponse THEN <<>> ELSE s2.response)
       ELSE /\ pc' = NextStage(flow, stage)
            /\ conversation_memory' = conversation_memory

\* StageRaises with a fault: the handler records the error but sets no reply
StageRaises_without_reply(s2, msg) ==
    /\ state' = [s2 EXCEPT !.errors = Append(@, ErrorEntry(msg))]
    /\ escaped' = msg
    /\ pc' = "returned"
    /\ conversation_memory' = conversation_memory

\* StageRaises with a fault: the handler answered with a fresh state
StageRaises_with_fresh_state(s2, msg) ==
    /\ state' = [NewState(s2.conversation_history, user_message) EXCEPT
                    !.errors = Append(s2.errors, ErrorEntry(msg)),
                    !.response = APOLOGY]
    /\ escaped' = msg
    /\ pc' = "returned"
    /\ conversation_memory' = conversation_memory

\* StageRaises with a fault: the handler clears the fields of the stage
\* pipeline before it answers
StageRaises_clearing_fields(s2, msg) ==
    /\ state' = [s2 EXCEPT !.errors = Append(@, ErrorEntry(msg)),
                           !.response = APOLOGY,
                           !.weather_data = NoWeather,
                           !.wardrobe_selection = NoSelection,
                           !.final_recommendation = NoOutfit]
    /\ escaped' = msg
    /\ pc' = "returned"
    /\ conversation_memory' = conversation_memory

\* An exception escaped a stage that had left the state as s2: the handler
\* of process_request (lines 103-108).
StageRaises(s2, msg) ==
    /\ state' = [s2 EXCEPT !.errors = Append(@, ErrorEntry(msg)),
                           !.response = APOLOGY]
    /\ escaped' = msg
    /\ pc' = "returned"
    /\ conversation_memory' = conversation_memory

\* process_request up to its first await (lines 75-83)
ProcessRequest ==
    /\ pc \in {"idle", "returned"}
    /\ nreq < MaxRequests
    /\ \E message \in Messages, thread \in Threads, history \in Histories :
        /\ state' = NewState(history, message)
        /\ user_message' = message
        /\ thread_id' = thread
    /\ nreq' = nreq + 1
    /\ pc' = "supervisor"
    /\ flow' = <<>>
    /\ trace' = <<>>
    /\ recovered' = {}
    /\ escaped' = NoError
    /\ action' = NoAction
    /\ routing' = NotRouted
    /\ composer_text' = NoText
    /\ answered' = NoAnswers
    /\ UNCHANGED <<conversation_memory, wardrobe>>
    /\ UNCHANGED clients

\* _run_supervisor, and the dispatch on its result (lines 83-98)
RunSupervisor ==
    /\ pc = "supervisor"
    /\ trace' = Append(trace, "supervisor")
    /\ \E structured \in StructuredPlanAnswers(Get(state.metadata, "user_message", "")) :
       \E unstructured \in SecondCall(structured,
              UnstructuredPlanAnswers(Get(state.metadata, "user_message", ""))) :
        LET r == plan(Get(state.metadata, "user_message", ""), structured, unstructured)
        IN  IF r.raised
            THEN /\ StageRaises(state, r.error)
                 /\ routing' = Routing(structured, unstructured)
                 /\ UNCHANGED <<flow, recovered, action>>
            ELSE LET s2 == ApplyPlan(state, r.value)
                     f == Dispatch(Get(s2.metadata, "action", "full_recommendation"))
                 IN  /\ state' = s2
                     /\ flow' = f
                     /\ pc' = f[1]
                     /\ action' = Get(s2.metadata, "action", "full_recommendation")
                     /\ routing' = Routing(structured, unstructured)
                     /\ recovered' = IF r.fellback THEN recovered \cup {"router"}
                                     ELSE recovered
                     /\ UNCHANGED <<escaped, conversation_memory>>
    /\ answered' = [answered EXCEPT !.router_history = PairUp(state.conversation_history)]
    /\ UNCHANGED <<thread_id, user_message, nreq, wardrobe, composer_text>>
    /\ UNCHANGED clients

(***************************************************************************)
(* WeatherService (services/weather_service.py).                           *)
(***************************************************************************)
\* None returned by _get_coordinates
NoCoords == "<no coords>"

\* _get_coordinates (lines 63-73): geo is the geocoding API's answer
_get_coordinates(location, geo) ==
    IF geo = "found" THEN "geocoded" ELSE NoCoords

DemoLocations == {"Paris"}

\* _get_demo_coordinates (lines 93-106): a table with a default for every
\* other location
_get_demo_coordinates(location) ==
    IF location \in DemoLocations THEN "demo" ELSE "demo default"

\* get_weather (lines 35-61); geo and api are the answers of the two HTTP
\* calls: geo in {"found", "empty", "raise"}, api in {"ok", "raise"}
get_weather(location, geo, api) ==
    LET coords == IF _get_coordinates(location, geo) # NoCoords
                  THEN _get_coordinates(location, geo)
                  ELSE _get_demo_coordinates(location)
    IN  IF geo = "raise" THEN Raised("Failed to fetch weather data")
        ELSE IF coords = NoCoords THEN Raised("Failed to fetch weather data")
        ELSE IF api = "raise" THEN Raised("Failed to fetch weather data")
        ELSE Returned(WeatherData(location))

GeoAnswers == {"found", "empty", "raise"}
ApiAnswers == {"ok", "raise"}

(***************************************************************************)
(* WeatherAgent (agents/weather_agent.py).                                 *)
(***************************************************************************)
\* lines 79-87
FallbackAnalysis(weather_data) ==
    [weather_analysis |-> <<"Weather in ", weather_data.location,
                            weather_data.description, weather_data.temperature>>,
     comfort_level |-> 3,
     key_factors |-> <<"temperature", "conditions">>,
     temperature_category |-> "mild",
     precipitation_risk |-> "low",
     wind_factor |-> "calm",
     recommendations |-> "Dress appropriately for the current conditions."]

\* _analyze_weather (lines 60-87)
_analyze_weather(weather_data, structured, unstructured) ==
    IF structured.kind = "ok" THEN Returned(structured.value)
    ELSE IF unstructured.kind = "raise" THEN Raised("llm call failed")
    ELSE IF unstructured.value.kind = "str" /\ unstructured.value.json = "dict"
    THEN Returned(unstructured.value.value)
    ELSE IF unstructured.value.kind = "str" /\ unstructured.value.json = "other"
    THEN Returned(NotADict)
    ELSE Fellback(FallbackAnalysis(weather_data))

\* WeatherAgent.run (lines 21-31): the state it leaves and whether it raised
WeatherAgent_run(s, geo, api, structured, unstructured) ==
    IF s.location = None THEN Returned(s)
    ELSE LET w == get_weather(s.location, geo, api)
         IN  IF w.raised THEN [raised |-> TRUE, error |-> w.error, value |-> s]
             ELSE LET s2 == [s EXCEPT !.weather_data = w.value]
                      a == _analyze_weather(w.value, structured, unstructured)
                  IN  IF a.raised
                      THEN [raised |-> TRUE, error |-> a.error, value |-> s2]
                      ELSE IF ~IsDict(a.value)
                      THEN [raised |-> TRUE, error |-> "TypeError", value |-> s2]
                      ELSE [raised |-> FALSE, fellback |-> a.fellback,
                            value |-> [s2 EXCEPT !.metadata = Update(@, a.value)]]

LlmAnalysis ==
    [weather_analysis |-> "llm analysis", comfort_level |-> 4,
     key_factors |-> <<"wind">>, temperature_category |-> "warm",
     precipitation_risk |-> "none", wind_factor |-> "breezy",
     recommendations |-> "llm advice"]

StructuredAnalysisAnswers == {Raise, Ok(LlmAnalysis)}

UnstructuredAnalysisAnswers ==
    {Raise, Ok(NonStr), Ok(NotJson), Ok(JsonOther),
     Ok(JsonDict([weather_analysis |-> "llm analysis", comfort_level |-> 2,
                  key_factors |-> <<"rain">>, recommendations |-> "llm advice"])),
     Ok(JsonDict([weather_analysis |-> "llm analysis", action |-> "weather_only",
                  user_message |-> "injected"]))}

\* the weather stage of a flow
RunWeather ==
    /\ pc = "weather"
    /\ trace' = Append(trace, "weather")
    /\ \E geo \in GeoAnswers, api \in ApiAnswers,
          structured \in StructuredAnalysisAnswers :
       \E unstructured \in SecondCall(structured, UnstructuredAnalysisAnswers) :
        LET r == WeatherAgent_run(state, geo, api, structured, unstructured)
        IN  /\ IF r.raised
               THEN StageRaises(r.value, r.error) /\ UNCHANGED recovered
               ELSE /\ StageReturns(r.value, "weather")
                    /\ recovered' = IF r.fellback THEN recovered \cup {"weather"}
                                    ELSE recovered
            /\ answered' =
                  IF state.location = None THEN answered
                  ELSE [answered EXCEPT
                          !.geo = geo,
                          !.analysis =
                              IF get_weather(state.location, geo, api).raised
                              THEN NotCalled
                              ELSE Routing(structured, unstructured)]
    /\ UNCHANGED <<flow, thread_id, user_message, nreq, wardrobe, action, routing,
                   composer_text>>
    /\ UNCHANGED clients

(***************************************************************************)
(* WardrobeService (services/wardrobe_service.py).                         *)
(***************************************************************************)
Tee == Item(7, <<"c", "a">>, "top")

\* str.lower() on a category label
LowerLabel(c) ==
    CASE c = "Tops" -> "tops"
      [] c = "Accessories" -> "accessories"
      [] c = "Outerwear" -> "outerwear"
      [] OTHER -> c

Take(seq, n) == SubSeq(seq, 1, IF Len(seq) < n THEN Len(seq) ELSE n)

\* semantic_search (lines 78-96): the n best-ranked items of the index; a
\* failing index yields the empty list
semantic_search(index, query, limit, index_ok) ==
    IF index_ok THEN Take(index[query], limit) ELSE <<>>

\* f"{category} clothing items" (line 100)
CategoryQuery(category) == <<category, " clothing items">>

\* filter_by_category with a fault: the [:limit] slice is missing
filter_by_category_without_cap(index, category, limit, index_ok) ==
    LET all_results == semantic_search(index, CategoryQuery(category), limit * 2, index_ok)
    IN  SelectSeq(all_results,
                  LAMBDA item : LowerLabel(item.category) = LowerLabel(category))

\* filter_by_category (lines 98-105)
filter_by_category(index, category, limit, index_ok) ==
    LET all_results == semantic_search(index, CategoryQuery(category), limit * 2, index_ok)
    IN  Take(SelectSeq(all_results,
                 LAMBDA item : LowerLabel(item.category) = LowerLabel(category)),
             limit)

(***************************************************************************)
(* WardrobeAgent (agents/wardrobe_agent.py).                               *)
(***************************************************************************)
SelectorCategories == {"tops", "bottoms", "footwear", "outerwear", "accessories"}

\* program constants: the limits of _parse_agent_results (lines 136-140)
TopsLimit == 4
BottomsLimit == 4
FootwearLimit == 3
OuterwearLimit == 2
AccessoriesLimit == 3

\* _parse_agent_results with a fault: a tool loop that stopped at its
\* iteration limit yields no candidates
_parse_agent_results_reading_output(index, agent_output, failing) ==
    IF agent_output = "Agent stopped due to max iterations."
    THEN Selection(<<>>, <<>>, <<>>, <<>>, <<>>, agent_output)
    ELSE Selection(filter_by_category(index, "tops", TopsLimit, "tops" \notin failing),
              filter_by_category(index, "bottoms", BottomsLimit, "bottoms" \notin failing),
              filter_by_category(index, "footwear", FootwearLimit, "footwear" \notin failing),
              filter_by_category(index, "outerwear", OuterwearLimit, "outerwear" \notin failing),
              filter_by_category(index, "accessories", AccessoriesLimit,
                                 "accessories" \notin failing),
              agent_output)

\* _parse_agent_results (lines 125-142); failing is the set of categories
\* whose index query fails
_parse_agent_results(index, agent_output, failing) ==
    Selection(filter_by_category(index, "tops", TopsLimit, "tops" \notin failing),
              filter_by_category(index, "bottoms", BottomsLimit, "bottoms" \notin failing),
              filter_by_category(index, "footwear", FootwearLimit, "footwear" \notin failing),
              filter_by_category(index, "outerwear", OuterwearLimit, "outerwear" \notin failing),
              filter_by_category(index, "accessories", AccessoriesLimit,
                                 "accessories" \notin failing),
              agent_output)

\* WardrobeAgent.run with a fault: the early return for missing weather data
\* (lines 104-105) is gone
WardrobeAgent_run_without_guard(s, index, executor, failing) ==
    IF executor.kind = "raise"
    THEN [raised |-> TRUE, error |-> "agent executor failed", value |-> s]
    ELSE Returned([s EXCEPT
            !.wardrobe_selection = _parse_agent_results(index, executor.value, failing),
            !.metadata = Update(@, [wardrobe_agent_reasoning |-> executor.value])])

\* WardrobeAgent.run (lines 102-122); executor is the answer of the tool loop
WardrobeAgent_run(s, index, executor, failing) ==
    IF s.weather_data = NoWeather THEN Returned(s)
    ELSE IF executor.kind = "raise"
    THEN [raised |-> TRUE, error |-> "agent executor failed", value |-> s]
    ELSE Returned([s EXCEPT
            !.wardrobe_selection = _parse_agent_results(index, executor.value, failing),
            !.metadata = Update(@, [wardrobe_agent_reasoning |-> executor.value])])

ExecutorAnswers ==
    {Raise, Ok("selected items"), Ok("Agent stopped due to max iterations.")}

IndexFailures == {{}, {"outerwear"}, SelectorCategories}

\* the wardrobe stage of a flow
RunWardrobe ==
    /\ pc = "wardrobe"
    /\ trace' = Append(trace, "wardrobe")
    /\ \E executor \in ExecutorAnswers, failing \in IndexFailures :
        LET r == WardrobeAgent_run(state, wardrobe, executor, failing)
        IN  IF r.raised
            THEN StageRaises(r.value, r.error)
            ELSE StageReturns(r.value, "wardrobe")
    /\ UNCHANGED <<flow, recovered, thread_id, user_message, nreq, wardrobe, action,
                   routing, composer_text, answered>>
    /\ UNCHANGED clients

(***************************************************************************)
(* DesignAgent.run and ConversationAgent.run as stages.                    *)
(***************************************************************************)
\* the content of an unstructured answer that is a str
Text(t) == [kind |-> "str", text |-> t]

\* DesignAgent.run (lines 20-50)
DesignAgent_run(s, structured, unstructured) ==
    IF s.weather_data = NoWeather THEN Returned(s)
    ELSE IF s.wardrobe_selection = NoSelection THEN Returned(s)
    ELSE IF structured.kind = "ok"
    THEN [raised |-> FALSE, fellback |-> FALSE,
          value |-> [s EXCEPT !.final_recommendation =
                        _validate_and_populate_outfit(structured.value,
                                                      s.wardrobe_selection)]]
    ELSE IF unstructured.kind = "raise"
    THEN [raised |-> TRUE, error |-> "llm call failed", value |-> s]
    ELSE IF unstructured.value.kind # "str"
    THEN [raised |-> TRUE, error |-> "AttributeError", value |-> s]
    ELSE [raised |-> FALSE, fellback |-> TRUE,
          value |-> [s EXCEPT !.final_recommendation =
                        _parse_outfit_response(unstructured.value.text,
                                               s.wardrobe_selection)]]

\* the composition stage, for given sets of model answers
RunDesignWith(StructuredAnswers, UnstructuredAnswers) ==
    /\ pc = "design"
    /\ trace' = Append(trace, "design")
    /\ \E structured \in StructuredAnswers :
       \E unstructured \in SecondCall(structured, UnstructuredAnswers) :
        LET r == DesignAgent_run(state, structured, unstructured)
        IN  IF r.raised
            THEN StageRaises(r.value, r.error) /\ UNCHANGED <<recovered, composer_text>>
            ELSE /\ StageReturns(r.value, "design")
                 /\ recovered' = IF r.fellback THEN recovered \cup {"composer"}
                                 ELSE recovered
                 /\ composer_text' = IF r.fellback THEN unstructured.value.text
                                     ELSE NoText
    /\ UNCHANGED <<flow, thread_id, user_message, nreq, wardrobe, action, routing,
                   answered>>
    /\ UNCHANGED clients

\* ConversationAgent.respond (lines 91-106)
respond(structured, unstructured) ==
    IF structured.kind = "ok" THEN Returned(structured.value)
    ELSE IF unstructured.kind = "raise" THEN Raised("llm call failed")
    ELSE IF unstructured.value.kind = "str"
    THEN Fellback(strip(unstructured.value.text))
    ELSE Fellback(RESPOND_APOLOGY)

\* ConversationAgent.run (lines 23-64)
ConversationAgent_run(s, structured, unstructured) ==
    LET r == respond(structured, unstructured)
    IN  IF r.raised THEN [raised |-> TRUE, error |-> r.error, value |-> s]
        ELSE [raised |-> FALSE, fellback |-> r.fellback,
              value |-> [s EXCEPT !.response = r.value]]

StructuredReplyAnswers == {Raise, Ok(<<"H", "i">>), Ok(<<>>)}
UnstructuredReplyAnswers ==
    {Raise, Ok(NonStr), Ok(Text(<<" ", "H", "i", " ">>)), Ok(Text(<<" ">>))}

\* the response stage of a flow
RunConversation ==
    /\ pc = "conversation"
    /\ trace' = Append(trace, "conversation")
    /\ \E structured \in StructuredReplyAnswers :
       \E unstructured \in SecondCall(structured, UnstructuredReplyAnswers) :
        LET r == ConversationAgent_run(state, structured, unstructured)
        IN  /\ IF r.raised
               THEN StageRaises(r.value, r.error) /\ UNCHANGED recovered
               ELSE /\ StageReturns(r.value, "conversation")
                    /\ recovered' = IF r.fellback THEN recovered \cup {"responder"}
                                    ELSE recovered
            /\ answered' = [answered EXCEPT
                              !.reply = ReplyCalls(structured, unstructured),
                              !.reply_history = PairUp(state.conversation_history)]
    /\ UNCHANGED <<flow, thread_id, user_message, nreq, wardrobe, action, routing,
                   composer_text>>
    /\ UNCHANGED clients

(***************************************************************************)
(* The request pipeline.                                                   *)
(***************************************************************************)
\* an index that ranks its items the same way for every category query
Index(ranked) == [q \in {CategoryQuery(c) : c \in SelectorCategories} |-> ranked]

PipelineIndexes ==
    {Index(<<Shirt, Jeans, Boot, Coat, Scarf, Hat>>),
     Index(<<Tee, Boot, Shirt>>)}

\* answers of the model to the composer in the pipeline
PipelineOutfits ==
    {Raise,
     Ok(Outfit(SlotItem(Shirt), SlotNone, SlotItem(Boot), SlotNone, <<>>, "llm")),
     Ok(Outfit(SlotItem(Invented), SlotNone, SlotNone, SlotNone,
               <<SlotItem(Invented)>>, "llm"))}

PipelineTexts ==
    {Raise, Ok(NonStr),
     Ok(Text(<<"A", "B", "|", "b", "|", "a", "|", "N", "o", "n", "e", "|", "c">>)),
     Ok(Text(<<"a", "|", "b">>))}

RunDesign == RunDesignWith(PipelineOutfits, PipelineTexts)

Init ==
    /\ pc = "idle"
    /\ state = NewState(<<>>, None)
    /\ flow = <<>>
    /\ trace = <<>>
    /\ recovered = {}
    /\ escaped = NoError
    /\ conversation_memory = EmptyDict
    /\ thread_id = None
    /\ user_message = None
    /\ nreq = 0
    /\ wardrobe \in PipelineIndexes
    /\ action = NoAction
    /\ routing = NotRouted
    /\ composer_text = NoText
    /\ answered = NoAnswers
    /\ inflight = NoClients
    /\ NoTools
    /\ exchanges = EmptyDict

Next ==
    \/ ProcessRequest
    \/ RunSupervisor
    \/ RunWeather
    \/ RunWardrobe
    \/ RunDesign
    \/ RunConversation

Spec == Init /\ [][Next]_vars

(***************************************************************************)
(* The Outfit Composer on its own: a request that has reached the          *)
(* composition stage of the full-recommendation flow, for a range of       *)
(* wardrobes and of model answers.                                         *)
(***************************************************************************)
Catalog == {Shirt, Jeans, Boot, Coat, Scarf, Hat}

RECURSIVE SortedById(_)
SortedById(S) ==
    IF S = {} THEN <<>>
    ELSE LET m == CHOOSE x \in S : \A y \in S : x.id <= y.id
         IN  <<m>> \o SortedById(S \ {m})

Reverse(seq) == [i \in 1..Len(seq) |-> seq[Len(seq) + 1 - i]]

DesignIndexes ==
    UNION {{Index(SortedById(S)), Index(Reverse(SortedById(S)))} :
              S \in {T \in SUBSET Catalog : Cardinality(T) <= MaxIndexSize}}

\* free-text answers "top|bottom|footwear|outerwear|accessories"
SlotTexts == {<<>>, STR_None, <<"a">>, <<"A", "B">>, <<"z">>, <<" ", "c">>}
FewSlotTexts == {STR_None, <<"b">>}
AccessoryTexts ==
    {<<>>, STR_None, <<"z", ",", "c", ",", " ", "b", "c">>, <<"B", "C", ",", "a", "b">>}

WellFormedTexts ==
    {join(<<t, b, STR_None, o, a>>, "|") :
        t \in SlotTexts, b \in FewSlotTexts, o \in SlotTexts, a \in AccessoryTexts}

\* answered with a number of fields other than 5
MalformedTexts ==
    {join([i \in 1..k |-> f], "|") :
        k \in (1..MaxFields) \ {5}, f \in {<<"A", "b">>, <<"c">>, <<" ">>}}

DesignTexts ==
    {Raise, Ok(NonStr)} \cup {Ok(Text(t)) : t \in WellFormedTexts \cup MalformedTexts}
        \cup {Ok(Text(<<" ">> \o t \o <<" ">>)) : t \in MalformedTexts}

\* structured answers: each slot is None, a str or an item object
RawSlots ==
    {SlotNone, SlotStr(<<"a">>), SlotItem(Invented)}
        \cup {SlotItem(i) : i \in Catalog}

RawAccessories ==
    {<<>>, <<SlotItem(Scarf)>>, <<SlotStr(<<"c">>), SlotItem(Invented)>>,
     <<SlotStr(<<"z">>), SlotStr(<<"B", "c">>)>>}

DesignOutfits ==
    {Raise} \cup {Ok(Outfit(t, SlotNone, SlotNone, o, a, "llm")) :
                     t \in RawSlots,
                     o \in {SlotNone, SlotItem(Shirt), SlotItem(Coat), SlotItem(Invented)},
                     a \in RawAccessories}

\* the state of a full-recommendation request for Paris when the wardrobe
\* stage has returned
StateAtDesign(index) ==
    LET s1 == ApplyPlan(NewState(<<>>, "What should I wear?"),
                        [action |-> "full_recommendation", location |-> "Paris",
                         followup_context |-> None,
                         original_message |-> "What should I wear?",
                         reasoning |-> "llm", confidence |-> "0.9"])
        s2 == WeatherAgent_run(s1, "found", "ok", Ok(LlmAnalysis), Raise).value
    IN  WardrobeAgent_run(s2, index, Ok("selected items"), {}).value

InitDesign ==
    /\ pc = "design"
    /\ wardrobe \in DesignIndexes
    /\ state = StateAtDesign(wardrobe)
    /\ flow = _run_full_recommendation_flow
    /\ trace = <<"supervisor", "weather", "wardrobe">>
    /\ recovered = {}
    /\ escaped = NoError
    /\ conversation_memory = EmptyDict
    /\ thread_id = "default"
    /\ user_message = "What should I wear?"
    /\ nreq = 1
    /\ action = "full_recommendation"
    /\ routing = [structured |-> "ok", unstructured |-> "not called"]
    /\ composer_text = NoText
    /\ answered = [NoAnswers EXCEPT !.geo = "found",
                                   !.analysis = Routing(Ok(LlmAnalysis), Raise)]
    /\ inflight = NoClients
    /\ NoTools
    /\ exchanges = EmptyDict

Compose == RunDesignWith(DesignOutfits, DesignTexts)

NextDesign == Compose

SpecDesign == InitDesign /\ [][NextDesign]_vars

(***************************************************************************)
(* The Wardrobe Selector on its own: a request that has reached the        *)
(* wardrobe stage of the full-recommendation flow, for wardrobes that hold *)
(* more items of a category than the selector keeps.                       *)
(***************************************************************************)
MaxShelf == 5

Polo == Item(11, <<"p">>, "tops")
Blouse == Item(12, <<"b", "l">>, "Tops")
Vest == Item(13, <<"v">>, "tops")
Tunic == Item(14, <<"t">>, "tops")
Parka == Item(15, <<"p", "a">>, "outerwear")
Cape == Item(16, <<"c", "a", "p">>, "Outerwear")

Shelf == {Shirt, Polo, Blouse, Vest, Tunic, Coat, Parka, Cape, Tee}

ShelfIndexes ==
    UNION {{Index(SortedById(S)), Index(Reverse(SortedById(S)))} :
              S \in {T \in SUBSET Shelf : Cardinality(T) <= MaxShelf}}

\* the state of a full-recommendation request for Paris when the weather
\* stage has returned
StateAtWardrobe ==
    LET s1 == ApplyPlan(NewState(<<>>, "What should I wear?"),
                        [action |-> "full_recommendation", location |-> "Paris",
                         followup_context |-> None,
                         original_message |-> "What should I wear?",
                         reasoning |-> "llm", confidence |-> "0.9"])
    IN  WeatherAgent_run(s1, "found", "ok", Ok(LlmAnalysis), Raise).value

InitWardrobe ==
    /\ pc = "wardrobe"
    /\ wardrobe \in ShelfIndexes
    /\ state = StateAtWardrobe
    /\ flow = _run_full_recommendation_flow
    /\ trace = <<"supervisor", "weather">>
    /\ recovered = {}
    /\ escaped = NoError
    /\ conversation_memory = EmptyDict
    /\ thread_id = "default"
    /\ user_message = "What should I wear?"
    /\ nreq = 1
    /\ action = "full_recommendation"
    /\ routing = [structured |-> "ok", unstructured |-> "not called"]
    /\ composer_text = NoText
    /\ answered = [NoAnswers EXCEPT !.geo = "found",
                                    !.analysis = Routing(Ok(LlmAnalysis), Raise)]
    /\ inflight = NoClients
    /\ NoTools
    /\ exchanges = EmptyDict

NextWardrobe == RunWardrobe

SpecWardrobe == InitWardrobe /\ [][NextWardrobe]_vars

(***************************************************************************)
(* Clients of one orchestrator (get_orchestrator returns the one instance) *)
(* whose process_request coroutines interleave at their awaits.  A         *)
(* coroutine runs without interruption between two awaits; the memory      *)
(* update of lines 100-101 follows the last await of the flow.             *)
(***************************************************************************)
MaxClients == 2
MaxExchanges == 2
StoredExchanges == 9

\* a client that has sent nothing yet
IdleClient ==
    [pc |-> "idle", thread_id |-> None, user_message |-> None,
     outcome |-> None, started |-> 0]

\* the replies a completed flow leaves in state.response
Replies == {<<"H", "i">>, <<>>}

\* an exchange as the log keeps it
Exchange(message, response) == [user_message |-> message, response |-> response]

\* the two messages _update_conversation_memory stores for each exchange
Flatten(log) ==
    [i \in 1..(2 * Len(log)) |->
        IF i % 2 = 1
        THEN [role |-> "User", text |-> <<log[(i + 1) \div 2].user_message>>]
        ELSE [role |-> "Bot", text |-> log[i \div 2].response]]

\* exchanges recorded on thread "default" by earlier requests
StoredLog ==
    [i \in 1..StoredExchanges |->
        Exchange(IF i % 2 = 1 THEN "Hi!" ELSE "What should I wear?", <<"H", "i">>)]

\* the memory after _update_conversation_memory has stored each exchange
\* of the log in turn
RECURSIVE MemoryAfter(_, _, _)
MemoryAfter(memory, thread, log) ==
    IF log = <<>> THEN memory
    ELSE MemoryAfter(_update_conversation_memory(memory, thread,
                         Head(log).user_message, Head(log).response),
                     thread, Tail(log))

\* process_request from its call to its first await (lines 57-83)
Enter(r) ==
    /\ nreq < MaxExchanges
    /\ \E thread \in Threads, message \in Messages :
          inflight' = [inflight EXCEPT ![r] =
                          [pc |-> "supervisor", thread_id |-> thread,
                           user_message |-> message, outcome |-> None,
                           started |-> nreq + 1]]
    /\ nreq' = nreq + 1
    /\ UNCHANGED <<conversation_memory, exchanges>>
    /\ UNCHANGED pipeline

\* a client sends its first message
Begin(r) ==
    /\ inflight[r].pc = "idle"
    /\ Enter(r)

\* a client that got its reply sends another message
BeginAgain(r) ==
    /\ inflight[r].pc = "returned"
    /\ Enter(r)

\* the await of _run_supervisor returns and the flow runs to its awaits
\* (lines 83-98)
RouterReturns(r) ==
    /\ inflight[r].pc = "supervisor"
    /\ inflight' = [inflight EXCEPT ![r].pc = "flow"]
    /\ UNCHANGED <<conversation_memory, exchanges, nreq>>
    /\ UNCHANGED pipeline

\* the last await of the flow returns: the memory update and the return
\* (lines 100-101, 108) run without another await
FlowReturns(r) ==
    /\ inflight[r].pc = "flow"
    /\ \E response \in Replies :
          /\ conversation_memory' =
                _update_conversation_memory(conversation_memory, inflight[r].thread_id,
                                            inflight[r].user_message, response)
          /\ exchanges' =
                (inflight[r].thread_id :>
                    Append(IF inflight[r].thread_id \in DOMAIN exchanges
                           THEN exchanges[inflight[r].thread_id] ELSE <<>>,
                           Exchange(inflight[r].user_message, response)))
                @@ exchanges
    /\ inflight' = [inflight EXCEPT ![r].pc = "returned", ![r].outcome = "completed"]
    /\ UNCHANGED nreq
    /\ UNCHANGED pipeline

\* an exception leaves an await: the handler (lines 103-108) returns the
\* apology and the memory is not updated
Escapes(r) ==
    /\ inflight[r].pc \in {"supervisor", "flow"}
    /\ inflight' = [inflight EXCEPT ![r].pc = "returned", ![r].outcome = "failed"]
    /\ UNCHANGED <<conversation_memory, exchanges, nreq>>
    /\ UNCHANGED pipeline

InitClients ==
    /\ inflight = [r \in 1..MaxClients |-> IdleClient]
    /\ NoTools
    /\ exchanges \in {EmptyDict, [t \in {"default"} |-> StoredLog]}
    /\ conversation_memory =
          IF exchanges = EmptyDict THEN EmptyDict
          ELSE MemoryAfter(EmptyDict, "default", StoredLog)
    /\ nreq = 0
    /\ pc = "idle"
    /\ state = NewState(<<>>, None)
    /\ flow = <<>>
    /\ trace = <<>>
    /\ recovered = {}
    /\ escaped = NoError
    /\ thread_id = None
    /\ user_message = None
    /\ wardrobe = Index(<<>>)
    /\ action = NoAction
    /\ routing = NotRouted
    /\ composer_text = NoText
    /\ answered = NoAnswers

NextClients ==
    \E r \in DOMAIN inflight :
        \/ Begin(r)
        \/ BeginAgain(r)
        \/ RouterReturns(r)
        \/ FlowReturns(r)
        \/ Escapes(r)

SpecClients == InitClients /\ [][NextClients]_vars

(***************************************************************************)
(* The chat loop of the command line (cli.py).                             *)
(***************************************************************************)
\* create_outfit_graph (graph/graph.py lines 15-26): the function builds the
\* agents and ends without a return statement
create_outfit_graph == None

\* run_graph_interaction (cli.py lines 80-125): graph.ainvoke is called
\* inside the try, and any exception gives the failure result
run_graph_interaction(graph, message, history) ==
    IF graph = None
    THEN [success |-> FALSE, error |-> "AttributeError",
          response |-> "Sorry, I encountered an error processing your request."]
    ELSE [success |-> TRUE, response |-> "Hello"]

\* what the user types at the prompt
ChatInputs == {"Hi!", "What should I wear?", " ", "quit"}

\* one iteration of the loop of chat (cli.py lines 204-232)
chat ==
    /\ pc = "chat"
    /\ nreq < MaxTurns
    /\ \E user_input \in ChatInputs :
          IF user_input = "quit"
          THEN pc' = "quit" /\ UNCHANGED <<cli_history, nreq>>
          ELSE IF user_input = " "
          THEN UNCHANGED <<pc, cli_history, nreq>>
          ELSE LET result == run_graph_interaction(create_outfit_graph, user_input,
                                                   cli_history)
                   with_user == Append(cli_history, Prefixed("User: ", user_input))
               IN  /\ cli_history' =
                         IF result.success /\ result.response # ""
                         THEN Append(with_user, Prefixed("Bot: ", result.response))
                         ELSE with_user
                   /\ nreq' = nreq + 1
                   /\ pc' = pc
    /\ UNCHANGED <<state, flow, trace, recovered, escaped, conversation_memory,
                   thread_id, user_message, wardrobe, action, routing, composer_text,
                   answered, inflight, exchanges, csvfile, twin>>

InitChat ==
    /\ pc = "chat"
    /\ cli_history = <<>>
    /\ csvfile = <<>>
    /\ twin = EmptyDict
    /\ nreq = 0
    /\ state = NewState(<<>>, None)
    /\ flow = <<>>
    /\ trace = <<>>
    /\ recovered = {}
    /\ escaped = NoError
    /\ conversation_memory = EmptyDict
    /\ thread_id = None
    /\ user_message = None
    /\ wardrobe = Index(<<>>)
    /\ action = NoAction
    /\ routing = NotRouted
    /\ composer_text = NoText
    /\ answered = NoAnswers
    /\ inflight = NoClients
    /\ exchanges = EmptyDict

SpecChat == InitChat /\ [][chat]_vars

(***************************************************************************)
(* Populating the wardrobe from a CSV file (utils/populate_wardrobe.py).   *)
(* The collection is the sequence of its items; a CSV file is the sequence *)
(* of its rows.                                                            *)
(***************************************************************************)
\* WardrobeService.list_all_items
list_all_items(collection) == collection

\* WardrobeService.get_wardrobe_stats: the entry total_items
get_wardrobe_stats(collection) == [total_items |-> Len(list_all_items(collection))]

\* WardrobeService.remove_clothing_item
remove_clothing_item(collection, item_id) ==
    SelectSeq(collection, LAMBDA item : item.id # item_id)

\* WardrobeService.add_clothing_item: the uuid4 given to the item is an id
\* no item of the collection has
add_clothing_item(collection, name, category) ==
    LET ids == {collection[i].id : i \in DOMAIN collection} \cup {0}
        uuid == 1 + CHOOSE m \in ids : \A n \in ids : n <= m
    IN  Append(collection, Item(uuid, name, category))

count_csv_items(csv) == Len(csv)

get_existing_item_names(collection) ==
    {item.name : item \in Range(list_all_items(collection))}

get_csv_item_names(csv) ==
    {strip(row.name) : row \in {r \in Range(csv) : r.name # <<>>}}

\* remove_items_not_in_csv: item_id_map keeps, for each name, the id of the
\* last item listed with that name
remove_items_not_in_csv(collection, csv_names, existing_names) ==
    LET items_to_remove == existing_names \ csv_names
        all_items == list_all_items(collection)
        item_id_map == [n \in {item.name : item \in Range(all_items)} |->
                          all_items[CHOOSE i \in DOMAIN all_items :
                                       /\ all_items[i].name = n
                                       /\ \A j \in DOMAIN all_items :
                                              all_items[j].name = n => j <= i].id]
    IN  SelectSeq(collection,
                  LAMBDA item : ~(/\ item.name \in items_to_remove
                                  /\ item.id = item_id_map[item.name]))

\* the loop over the rows of populate_wardrobe_from_csv (lines 206-250)
RECURSIVE ProcessRows(_, _, _, _)
ProcessRows(collection, rows, force_reload, existing_names) ==
    IF rows = <<>> THEN collection
    ELSE LET row == Head(rows)
             item_name == strip(row.name)
         IN  IF ~force_reload /\ item_name \in existing_names
             THEN ProcessRows(collection, Tail(rows), force_reload, existing_names)
             ELSE ProcessRows(add_clothing_item(collection, item_name, row.category),
                              Tail(rows), force_reload, existing_names)

\* populate_wardrobe_from_csv on a CSV file that exists: the collection it
\* leaves behind
populate_wardrobe_from_csv(collection, csv, force_reload, sync_mode) ==
    LET csv_item_count == count_csv_items(csv)
        csv_names == get_csv_item_names(csv)
        current_item_count == get_wardrobe_stats(collection).total_items
        existing_names == get_existing_item_names(collection)
    IN  IF csv_item_count = 0 THEN collection
        ELSE IF force_reload /\ current_item_count > 0
        THEN ProcessRows(<<>>, csv, force_reload, {})
        ELSE IF current_item_count > 0
        THEN IF current_item_count = csv_item_count /\ existing_names = csv_names
             THEN collection
             ELSE IF current_item_count < csv_item_count
             THEN ProcessRows(collection, csv, force_reload, existing_names)
             ELSE IF sync_mode
             THEN LET kept == remove_items_not_in_csv(collection, csv_names,
                                                      existing_names)
                  IN  ProcessRows(kept, csv, force_reload,
                                  get_existing_item_names(kept))
             ELSE ProcessRows(collection, csv, force_reload, existing_names)
        ELSE ProcessRows(collection, csv, force_reload, {})

\* the rows of the CSV files given to the script
CsvRows == {[name |-> n, category |-> "tops"] :
               n \in {<<"a">>, <<"b">>, <<"b", " ">>, <<"c">>}}

CsvFiles == UNION {[1..n -> CsvRows] : n \in 0..MaxRows}

\* main of populate_wardrobe.py, run once more with some flags on some file
main ==
    /\ pc \in {"populate", "populated", "synced"}
    /\ nreq < MaxRuns
    /\ \E csv \in CsvFiles, force_reload \in BOOLEAN, sync_mode \in BOOLEAN :
          /\ wardrobe' = populate_wardrobe_from_csv(wardrobe, csv, force_reload,
                                                    sync_mode)
          /\ csvfile' = csv
          /\ pc' = IF sync_mode THEN "synced" ELSE "populated"
    /\ nreq' = nreq + 1
    /\ UNCHANGED <<state, flow, trace, recovered, escaped, conversation_memory,
                   thread_id, user_message, action, routing, composer_text,
                   answered, inflight, exchanges, cli_history, twin>>

InitPopulate ==
    /\ pc = "populate"
    /\ wardrobe = <<>>
    /\ NoTools
    /\ nreq = 0
    /\ state = NewState(<<>>, None)
    /\ flow = <<>>
    /\ trace = <<>>
    /\ recovered = {}
    /\ escaped = NoError
    /\ conversation_memory = EmptyDict
    /\ thread_id = None
    /\ user_message = None
    /\ action = NoAction
    /\ routing = NotRouted
    /\ composer_text = NoText
    /\ answered = NoAnswers
    /\ inflight = NoClients
    /\ exchanges = EmptyDict

SpecPopulate == InitPopulate /\ [][main]_vars

(***************************************************************************)
(* process_request as a function of its arguments, of the orchestrator's   *)
(* memory and of what the collaborators answer, and two orchestrators that *)
(* are given the same requests.                                            *)
(***************************************************************************)
\* one stage of a flow, with the answers `a` of the collaborators
RunStage(stage, s, index, a) ==
    CASE stage = "weather" ->
            WeatherAgent_run(s, a.geo, a.api, a.analysis[1], a.analysis[2])
      [] stage = "wardrobe" -> WardrobeAgent_run(s, index, a.executor, a.failing)
      [] stage = "design" -> DesignAgent_run(s, a.outfit[1], a.outfit[2])
      [] stage = "conversation" -> ConversationAgent_run(s, a.reply[1], a.reply[2])

\* the awaits of a _run_*_flow method, one after the other
RECURSIVE RunFlow(_, _, _, _)
RunFlow(f, s, index, a) ==
    IF f = <<>> THEN Returned(s)
    ELSE LET r == RunStage(Head(f), s, index, a)
         IN  IF r.raised THEN r ELSE RunFlow(Tail(f), r.value, index, a)

\* process_request with a fault: with no history passed, the state is given
\* the messages stored for the thread
process_request_reading_memory(memory, thread, message, history, index, a) ==
    LET stored == IF thread \in DOMAIN memory THEN memory[thread] ELSE <<>>
        s0 == NewState(IF history = <<>>
                       THEN [i \in DOMAIN stored |-> "<stored message>"]
                       ELSE history, message)
        p == plan(message, a.plan[1], a.plan[2])
        handled(s, msg) == [s EXCEPT !.errors = Append(@, ErrorEntry(msg)),
                                     !.response = APOLOGY]
    IN  IF p.raised THEN [state |-> handled(s0, p.error), memory |-> memory]
        ELSE LET s1 == ApplyPlan(s0, p.value)
                 r == RunFlow(Dispatch(Get(s1.metadata, "action", "full_recommendation")),
                              s1, index, a)
             IN  IF r.raised
                 THEN [state |-> handled(r.value, r.error), memory |-> memory]
                 ELSE [state |-> r.value,
                       memory |-> _update_conversation_memory(memory, thread, message,
                                      IF r.value.response = NoResponse THEN <<>>
                                      ELSE r.value.response)]

\* process_request (lines 57-108): the state it returns and the memory it
\* leaves in the orchestrator
process_request(memory, thread, message, history, index, a) ==
    LET s0 == NewState(history, message)
        p == plan(message, a.plan[1], a.plan[2])
        handled(s, msg) == [s EXCEPT !.errors = Append(@, ErrorEntry(msg)),
                                     !.response = APOLOGY]
    IN  IF p.raised THEN [state |-> handled(s0, p.error), memory |-> memory]
        ELSE LET s1 == ApplyPlan(s0, p.value)
                 r == RunFlow(Dispatch(Get(s1.metadata, "action", "full_recommendation")),
                              s1, index, a)
             IN  IF r.raised
                 THEN [state |-> handled(r.value, r.error), memory |-> memory]
                 ELSE [state |-> r.value,
                       memory |-> _update_conversation_memory(memory, thread, message,
                                      IF r.value.response = NoResponse THEN <<>>
                                      ELSE r.value.response)]

\* get_conversation_history (lines 200-202)
get_conversation_history(memory, thread) ==
    IF thread \in DOMAIN memory THEN memory[thread] ELSE <<>>

\* what the collaborators answer in the requests given to the two
\* orchestrators: every call answers, or one of them fails
AllAnswer ==
    [geo |-> "found",
     api |-> "ok",
     analysis |-> <<Ok(LlmAnalysis), Raise>>,
     executor |-> Ok("selected items"),
     failing |-> {},
     outfit |-> <<Ok(Outfit(SlotItem(Shirt), SlotNone, SlotItem(Boot), SlotNone,
                            <<>>, "llm")), Raise>>,
     reply |-> <<Ok(<<"H", "i">>), Raise>>]

StageAnswers ==
    {AllAnswer,
     [AllAnswer EXCEPT !.geo = "raise"],
     [AllAnswer EXCEPT !.analysis = <<Raise, Ok(NotJson)>>],
     [AllAnswer EXCEPT !.executor = Raise],
     [AllAnswer EXCEPT !.outfit = <<Raise, Raise>>],
     [AllAnswer EXCEPT !.reply = <<Raise, Ok(Text(<<" ", "H", "i", " ">>))>>],
     [AllAnswer EXCEPT !.reply = <<Raise, Raise>>]}

RouterAnswers(message) ==
    {<<Ok(p), Raise>> : p \in {q \in StructuredPlans(message) : q.location = "Paris"}}
        \cup {<<Raise, Raise>>, <<Raise, Ok(NotJson)>>}

\* the memories the second orchestrator may hold when the first one is new
StoredMemories ==
    {("default" :> <<[role |-> "User", text |-> <<"Hi!">>],
                     [role |-> "Bot", text |-> <<"H", "i">>]>>),
     ("default" :> <<[role |-> "User", text |-> <<"What should I wear?">>],
                     [role |-> "Bot", text |-> APOLOGY]>>)
        @@ ("t2" :> <<[role |-> "User", text |-> <<"Hi!">>],
                      [role |-> "Bot", text |-> <<>>]>>)}

\* the same request, with the same answers of the collaborators, is
\* processed by both orchestrators
AskBoth ==
    /\ pc \in {"twins", "answered"}
    /\ nreq < MaxAsks
    /\ \E message \in Messages, thread \in Threads, history \in Histories :
       \E router \in RouterAnswers(message), stages \in StageAnswers :
        LET a == [plan |-> router] @@ stages
            first == process_request(conversation_memory, thread, message, history,
                                     wardrobe, a)
            second == process_request(twin.memory, thread, message, history,
                                      wardrobe, a)
        IN  /\ state' = first.state
            /\ conversation_memory' = first.memory
            /\ twin' = [memory |-> second.memory, state |-> second.state,
                        history |-> history]
            /\ thread_id' = thread
            /\ user_message' = message
    /\ nreq' = nreq + 1
    /\ pc' = "answered"
    /\ UNCHANGED <<flow, trace, recovered, escaped, wardrobe, action, routing,
                   composer_text, answered, inflight, exchanges, cli_history, csvfile>>

InitTwin ==
    /\ pc = "twins"
    /\ conversation_memory = EmptyDict
    /\ \E memory \in StoredMemories :
          twin = [memory |-> memory, state |-> NewState(<<>>, None), history |-> <<>>]
    /\ cli_history = <<>>
    /\ csvfile = <<>>
    /\ nreq = 0
    /\ state = NewState(<<>>, None)
    /\ flow = <<>>
    /\ trace = <<>>
    /\ recovered = {}
    /\ escaped = NoError
    /\ thread_id = None
    /\ user_message = None
    /\ wardrobe = Index(<<Shirt, Jeans, Boot, Coat, Scarf, Hat>>)
    /\ action = NoAction
    /\ routing = NotRouted
    /\ composer_text = NoText
    /\ answered = NoAnswers
    /\ inflight = NoClients
    /\ exchanges = EmptyDict

SpecTwin == InitTwin /\ [][AskBoth]_vars

(***************************************************************************)
(* Properties.                                                             *)
(***************************************************************************)
IsPrefix(p, q) == Len(p) <= Len(q) /\ SubSeq(q, 1, Len(p)) = p

\* C1: the state process_request returns always has a reply: response is
\* set (not None), whatever the collaborators returned or raised.
C1_ReplyAlwaysSet ==
    pc = "returned" => state.response # NoResponse

\* C1 witness: a request whose model call raised has returned with a reply
C1_Witness ==
    /\ pc = "returned"
    /\ escaped # NoError
    /\ state.response # NoResponse

\* C2 (as claimed): when the weather, wardrobe or composition stage fails,
\* the failure is recorded in errors and the remaining stages of the flow
\* still run, the response stage included.
C2_StageFailureNeverAborts ==
    (/\ pc = "returned"
     /\ escaped # NoError
     /\ trace # <<>>
     /\ trace[Len(trace)] \in {"weather", "wardrobe", "design"})
        => /\ state.errors # <<>>
           /\ trace = <<"supervisor">> \o flow

\* C3: when an exception escapes a stage, process_request returns (it does
\* not raise) a state whose errors gained an entry with the exception's
\* message and whose reply is the fixed apology; the fields populated
\* before the failure are as they were, and weather_data stays None when
\* the fetch itself failed.
C3_EscapedExceptionHandled ==
    [][(escaped = NoError /\ escaped' # NoError) =>
          /\ pc' = "returned"
          /\ state'.errors = Append(state.errors, ErrorEntry(escaped'))
          /\ state'.response = APOLOGY
          /\ \A f \in {"location", "followup_context", "wardrobe_selection",
                       "final_recommendation", "conversation_history", "metadata"} :
                state'[f] = state[f]
          /\ state.weather_data # NoWeather => state'.weather_data = state.weather_data
          /\ escaped' = "Failed to fetch weather data"
                => state'.weather_data = NoWeather]_vars

\* C3 witness: the weather fetch failed for the routed location
C3_Witness ==
    /\ pc = "returned"
    /\ escaped = "Failed to fetch weather data"
    /\ state.location = "Paris"
    /\ state.weather_data = NoWeather
    /\ state.response = APOLOGY

\* the stage order the claim gives for each routed action
C4_Path ==
    [full_recommendation |-> <<"weather", "wardrobe", "design", "conversation">>,
     weather_only |-> <<"weather", "conversation">>,
     wardrobe_only |-> <<"wardrobe", "conversation">>,
     conversation_only |-> <<"conversation">>]

\* the router ran once and first, and the stages run after it are, in order
\* and without repetition, the first stages of the routed action's path
StagesFollowRoutedPath ==
    /\ action = NoAction => trace \in {<<>>, <<"supervisor">>}
    /\ action \in KnownActions =>
          /\ trace # <<>>
          /\ IsPrefix(trace, <<"supervisor">> \o C4_Path[action])

\* C4 (as claimed): in every request the router is invoked once and first,
\* and the stages of the routed action's path then run, each once, in the
\* path's order and no other: a returned request has run the router and
\* then exactly its path.
C4_StagesRunRoutedPath ==
    /\ StagesFollowRoutedPath
    /\ (pc = "returned" /\ action \in KnownActions)
          => trace = <<"supervisor">> \o C4_Path[action]

\* C5: a request routed to conversation_only returns with weather_data and
\* final_recommendation unset.
C5_ConversationOnlyLeavesUnset ==
    (pc = "returned" /\ action = "conversation_only")
        => /\ state.weather_data = NoWeather
           /\ state.final_recommendation = NoOutfit

\* C5 witness: a conversation_only request with an extracted location
C5_Witness ==
    /\ pc = "returned"
    /\ action = "conversation_only"
    /\ state.location = "Paris"
    /\ escaped = NoError

Candidates(w) ==
    Range(w.available_tops) \cup Range(w.available_bottoms)
        \cup Range(w.available_footwear) \cup Range(w.available_outerwear)
        \cup Range(w.available_accessories)

SelectedItems(o) ==
    ({o.selected_top, o.selected_bottom, o.selected_footwear, o.selected_outerwear}
        \ {NoItem}) \cup Range(o.selected_accessories)

\* C6 (as claimed): every item of a stored outfit, on the structured and on
\* the free-text path, has the identity of one of the candidates passed to
\* the composer.
C6_NoFabricatedItems ==
    state.final_recommendation # NoOutfit =>
        \A it \in SelectedItems(state.final_recommendation) :
            it.id \in {c.id : c \in Candidates(state.wardrobe_selection)}

\* C7 (as claimed): each slot of a stored outfit holds a candidate of its
\* own category, so a category without candidates leaves its slot None, and
\* no error is recorded for it.
C7_SlotsFromOwnCategory ==
    LET o == state.final_recommendation
        w == state.wardrobe_selection
    IN  o # NoOutfit =>
          /\ o.selected_top # NoItem => o.selected_top \in Range(w.available_tops)
          /\ o.selected_bottom # NoItem => o.selected_bottom \in Range(w.available_bottoms)
          /\ o.selected_footwear # NoItem
                => o.selected_footwear \in Range(w.available_footwear)
          /\ o.selected_outerwear # NoItem
                => o.selected_outerwear \in Range(w.available_outerwear)
          /\ \A acc \in Range(o.selected_accessories) :
                acc \in Range(w.available_accessories)
          /\ w.available_outerwear = <<>>
                => o.selected_outerwear = NoItem /\ state.errors = <<>>

\* the router's structured call raised, and its second call raised or
\* returned something that is not a JSON object
RouterFailed ==
    /\ routing.structured = "raise"
    /\ routing.unstructured \in {"raise", "nonstr", "invalid", "other"}

\* C8 (as claimed): whenever routing fails, the plan is the fallback plan
\* (full_recommendation, no location, the utterance, confidence 0.5) and
\* the request goes on with the full-recommendation flow.
C8_RoutingFailureFallsBack ==
    RouterFailed =>
        /\ ~(escaped # NoError /\ trace = <<"supervisor">>)
        /\ action = "full_recommendation"
        /\ flow = <<"weather", "wardrobe", "design", "conversation">>
        /\ state.location = None
        /\ "supervisor_reasoning" \in DOMAIN state.metadata
        /\ state.metadata.supervisor_reasoning.original_message = user_message
        /\ state.metadata.supervisor_reasoning.confidence = "0.5"

\* C9 (as claimed): a request in which a stage recovered locally returns
\* with a non-empty errors sequence.
C9_RecoveryIsRecorded ==
    (pc = "returned" /\ recovered # {}) => state.errors # <<>>

\* C10: a free-text answer of the composer that does not have exactly five
\* '|'-separated fields yields an outfit whose four slots are None and whose
\* accessory list is empty, and no exception is raised.
C10_MalformedAnswerYieldsEmptyOutfit ==
    (/\ composer_text # NoText
     /\ Cardinality({i \in 1..Len(composer_text) : composer_text[i] = "|"}) # 4)
        => /\ escaped = NoError
           /\ state.final_recommendation # NoOutfit
           /\ state.final_recommendation.selected_top = NoItem
           /\ state.final_recommendation.selected_bottom = NoItem
           /\ state.final_recommendation.selected_footwear = NoItem
           /\ state.final_recommendation.selected_outerwear = NoItem
           /\ state.final_recommendation.selected_accessories = <<>>

\* C10 witness: the two-field answer "Ab|Ab" with "Ab" among the tops
C10_Witness ==
    /\ composer_text = <<"A", "b", "|", "A", "b">>
    /\ Shirt \in Range(state.wardrobe_selection.available_tops)
    /\ state.final_recommendation # NoOutfit
    /\ state.final_recommendation.selected_top = NoItem

\* the fields of the free text the composer parsed
ComposerFields == split(strip(composer_text), "|")

\* the texts that name no item
NullTexts == {<<>>, STR_NONE, STR_NOT_NEEDED}

\* the candidates whose name equals the text, case-insensitively
ExactMatches(t, w) == {c \in Candidates(w) : lower(c.name) = lower(t)}

\* the candidates whose name contains the text or is contained in it
SubstringMatches(t, w) ==
    {c \in Candidates(w) : \/ Contains(lower(c.name), lower(t))
                           \/ Contains(lower(t), lower(c.name))}

\* item is what the matching rule allows for the text t among the candidates w
ResolvesAsClaimed(t, item, w) ==
    IF lower(t) \in NullTexts THEN item = NoItem
    ELSE IF ExactMatches(t, w) # {} THEN item \in ExactMatches(t, w)
    ELSE IF SubstringMatches(t, w) # {} THEN item \in SubstringMatches(t, w)
    ELSE item = NoItem

\* C11: on the free-text path each slot text resolves to a candidate whose
\* name equals it case-insensitively if there is one, otherwise to a
\* candidate whose name contains it or is contained in it, otherwise (and
\* for an empty text, "none" and "not needed") to None; no error is raised.
C11_FreeTextResolution ==
    (composer_text # NoText /\ Len(ComposerFields) = 5) =>
        LET o == state.final_recommendation
            w == state.wardrobe_selection
        IN  /\ escaped = NoError
            /\ ResolvesAsClaimed(ComposerFields[1], o.selected_top, w)
            /\ ResolvesAsClaimed(ComposerFields[2], o.selected_bottom, w)
            /\ ResolvesAsClaimed(ComposerFields[3], o.selected_footwear, w)
            /\ ResolvesAsClaimed(ComposerFields[4], o.selected_outerwear, w)

\* C11 witness: the text "a" is contained in the top "Ab", listed first, and
\* equals the name of the boot "a": the slot holds the boot
C11_Witness ==
    /\ composer_text # NoText
    /\ Len(ComposerFields) = 5
    /\ ComposerFields[1] = <<"a">>
    /\ Shirt \in Range(state.wardrobe_selection.available_tops)
    /\ Boot \in Range(state.wardrobe_selection.available_footwear)
    /\ state.final_recommendation.selected_top = Boot

\* the comma-separated tokens of the accessory field f, each resolved on
\* its own, without those that name no candidate
ResolvedTokens(f, w) ==
    LET tokens == split(f, ",")
        resolved == [i \in 1..Len(tokens) |->
                        _find_item_by_name(strip(tokens[i]), _create_item_lookup(w))]
    IN  SelectSeq(resolved, LAMBDA it : it # NoItem)

\* C12: on the free-text path the accessory list is exactly the items the
\* comma-separated tokens of the fifth field resolve to, in token order;
\* tokens that match no candidate are dropped and no error is raised.
C12_AccessoryTokensResolved ==
    (composer_text # NoText /\ Len(ComposerFields) = 5) =>
        /\ escaped = NoError
        /\ state.final_recommendation.selected_accessories
              = ResolvedTokens(ComposerFields[5], state.wardrobe_selection)

\* C12 witness: of the tokens "z", "c", " bc" the first matches nothing and
\* the other two name the scarf and the hat
C12_Witness ==
    /\ composer_text # NoText
    /\ Len(ComposerFields) = 5
    /\ ComposerFields[5] = <<"z", ",", "c", ",", " ", "b", "c">>
    /\ state.final_recommendation.selected_accessories = <<Scarf, Hat>>

\* C13 (as claimed): the composer, given weather and candidates, stores a
\* well-formed outfit and never raises, also when the structured call
\* fails and the second call fails or returns content that is not text.
C13_ComposerNeverRaises ==
    (/\ trace # <<>>
     /\ trace[Len(trace)] = "design"
     /\ state.weather_data # NoWeather
     /\ state.wardrobe_selection # NoSelection)
        => /\ escaped = NoError
           /\ state.final_recommendation # NoOutfit

\* the weather interpreter's structured call failed, and its second call
\* failed or returned content that is not text or not JSON
ClassificationFailed ==
    /\ answered.analysis.structured = "raise"
    /\ answered.analysis.unstructured \in {"raise", "nonstr", "invalid"}

\* C14 (as claimed): whenever the classification fails the interpreter
\* returns the minimal analysis (comfort_level 3, temperature_category
\* "mild", key_factors temperature and conditions) and the failure does
\* not reach its caller.
C14_InterpreterFallsBack ==
    ClassificationFailed =>
        /\ ~(escaped # NoError /\ trace[Len(trace)] = "weather")
        /\ {"comfort_level", "temperature_category", "key_factors"}
              \subseteq DOMAIN state.metadata
        /\ state.metadata.comfort_level = 3
        /\ state.metadata.temperature_category = "mild"
        /\ state.metadata.key_factors = <<"temperature", "conditions">>

\* the response composer's structured call failed
StructuredReplyFailed == answered.reply.structured = "raise"

\* C15 (as claimed): when the response composer's structured call fails
\* and the second call fails too or returns empty or non-text content, the
\* reply is the composer's fixed apology and no exception leaves it.
C15_ResponderFallsBack ==
    (/\ StructuredReplyFailed
     /\ answered.reply.unstructured \in {"raise", "nonstr", "blank"})
        => /\ escaped = NoError
           /\ state.response = RESPOND_APOLOGY

\* C16 (as claimed): whenever the geocoding call returns no result the
\* adapter fails and no weather snapshot is stored.
C16_LookupErrorWhenNotGeocoded ==
    answered.geo = "empty" =>
        /\ state.weather_data = NoWeather
        /\ escaped = "Failed to fetch weather data"

\* the items of a candidate list all carry the label of the list's category
AllOfCategory(items, category) ==
    \A i \in 1..Len(items) : LowerLabel(items[i].category) = category

\* C17: the candidates the selector stores hold at most 4 tops, 4 bottoms,
\* 3 footwear, 2 outerwear and 3 accessories, and every item of a list has
\* the list's category, whatever the wardrobe holds.
C17_CandidatesWithinCaps ==
    LET w == state.wardrobe_selection
    IN  w # NoSelection =>
          /\ Len(w.available_tops) <= 4
          /\ Len(w.available_bottoms) <= 4
          /\ Len(w.available_footwear) <= 3
          /\ Len(w.available_outerwear) <= 2
          /\ Len(w.available_accessories) <= 3
          /\ AllOfCategory(w.available_tops, "tops")
          /\ AllOfCategory(w.available_bottoms, "bottoms")
          /\ AllOfCategory(w.available_footwear, "footwear")
          /\ AllOfCategory(w.available_outerwear, "outerwear")
          /\ AllOfCategory(w.available_accessories, "accessories")

\* C17 witness: the wardrobe holds three outerwear items and the selector
\* kept two of them
C17_Witness ==
    /\ {Coat, Parka, Cape} \subseteq Range(wardrobe[CategoryQuery("outerwear")])
    /\ state.wardrobe_selection # NoSelection
    /\ Len(state.wardrobe_selection.available_outerwear) = 2

\* the last n elements of a sequence
LastN(seq, n) == SubSeq(seq, IF Len(seq) > n THEN Len(seq) - n + 1 ELSE 1, Len(seq))

\* C18: each thread's memory holds at most 20 messages, and once more than
\* 10 exchanges were recorded on a thread it holds exactly the 10 most
\* recent ones, in order.
C18_MemoryKeepsLastTenExchanges ==
    /\ DOMAIN conversation_memory \subseteq DOMAIN exchanges
    /\ \A t \in DOMAIN conversation_memory :
          /\ Len(conversation_memory[t]) <= 20
          /\ Len(exchanges[t]) > 10
                => conversation_memory[t] = Flatten(LastN(exchanges[t], 10))

\* C18 witness: eleven exchanges were recorded on thread "default", the
\* memory holds twenty messages, the oldest exchange is gone and the last
\* message is an empty reply
C18_Witness ==
    /\ "default" \in DOMAIN exchanges
    /\ Len(exchanges["default"]) = 11
    /\ Len(conversation_memory["default"]) = 20
    /\ conversation_memory["default"][1]
          = [role |-> "User", text |-> <<exchanges["default"][2].user_message>>]
    /\ conversation_memory["default"][20] = [role |-> "Bot", text |-> <<>>]

\* C19: with the clients' requests interleaved at their awaits no memory
\* update is lost: each thread's memory holds, for every request that
\* completed on that thread and for no other, its user message followed by
\* its reply, one pair after the other in completion order (as long as the
\* thread holds no more than 10 exchanges).
C19_NoMemoryUpdateLost ==
    /\ DOMAIN conversation_memory = DOMAIN exchanges
    /\ \A t \in DOMAIN exchanges :
          Len(exchanges[t]) <= 10 => conversation_memory[t] = Flatten(exchanges[t])
    /\ \A r \in DOMAIN inflight :
          inflight[r].outcome = "completed" =>
              /\ inflight[r].thread_id \in DOMAIN conversation_memory
              /\ \E i \in 1..Len(exchanges[inflight[r].thread_id]) :
                    exchanges[inflight[r].thread_id][i].user_message
                        = inflight[r].user_message

\* C19 witness: on thread "t2" a request that started first completed
\* after a request that started later, and the memory holds both pairs
C19_Witness ==
    \E r1, r2 \in DOMAIN inflight :
        /\ inflight[r1].outcome = "completed"
        /\ inflight[r2].outcome = "completed"
        /\ inflight[r1].thread_id = "t2"
        /\ inflight[r2].thread_id = "t2"
        /\ inflight[r1].started < inflight[r2].started
        /\ inflight[r1].user_message = "Hi!"
        /\ inflight[r2].user_message = "What should I wear?"
        /\ "t2" \in DOMAIN conversation_memory
        /\ Len(conversation_memory["t2"]) = 4
        /\ conversation_memory["t2"][1] = [role |-> "User", text |-> <<"What should I wear?">>]
        /\ conversation_memory["t2"][3] = [role |-> "User", text |-> <<"Hi!">>]

\* C20: the history handed to the router and to the response composer holds
\* at most the last 10 (user, assistant) pairs of the history the caller
\* passed to process_request.
C20_PromptHistoryBounded ==
    /\ "supervisor" \in Range(trace)
          => answered.router_history = LastN(PairUp(state.conversation_history), 10)
    /\ "conversation" \in Range(trace)
          => answered.reply_history = LastN(PairUp(state.conversation_history), 10)

\* C21: every stage tolerates absent upstream fields: the weather stage with
\* no location, the wardrobe stage with no weather and the composer with no
\* weather or no candidates leave the state as it is, and the response
\* stage sets a reply whatever fields are absent; none of them raises or
\* records an error.
C21_StagesTolerateAbsentFields ==
    [][/\ (pc = "weather" /\ state.location = None)
            => (state' = state /\ escaped' = NoError)
       /\ (pc = "wardrobe" /\ state.weather_data = NoWeather)
            => (state' = state /\ escaped' = NoError)
       /\ (pc = "design" /\ (state.weather_data = NoWeather
                              \/ state.wardrobe_selection = NoSelection))
            => (state' = state /\ escaped' = NoError)
       /\ (pc = "conversation" /\ (state.weather_data = NoWeather
                                    \/ state.wardrobe_selection = NoSelection
                                    \/ state.final_recommendation = NoOutfit))
            => /\ state'.response # NoResponse
               /\ state'.errors = state.errors
               /\ escaped' = NoError]_vars

\* C22: within one request a populated location, weather, candidates or
\* outfit is never reset or replaced by a later stage or by the error
\* handler: once set, the field keeps its value until the request returns.
C22_PopulatedFieldsKept ==
    [][pc' # "supervisor" =>
         /\ state.location # None => state'.location = state.location
         /\ state.weather_data # NoWeather => state'.weather_data = state.weather_data
         /\ state.wardrobe_selection # NoSelection
                => state'.wardrobe_selection = state.wardrobe_selection
         /\ state.final_recommendation # NoOutfit
                => state'.final_recommendation = state.final_recommendation]_vars

\* C22 witness: the response stage raised after the four fields were
\* populated, and the returned state still has them
C22_Witness ==
    /\ pc = "returned"
    /\ escaped # NoError
    /\ trace = <<"supervisor", "weather", "wardrobe", "design", "conversation">>
    /\ state.location # None
    /\ state.weather_data # NoWeather
    /\ state.wardrobe_selection # NoSelection
    /\ state.final_recommendation # NoOutfit

\* C23: a request routed to full_recommendation whose location was geocoded
\* and whose weather was fetched, on an index holding an item of category
\* "top", returns with weather, candidates, a selected top and a non-empty
\* reply.
C23_FullRecommendationPopulates ==
    (/\ pc = "returned"
     /\ action = "full_recommendation"
     /\ state.location # None
     /\ answered.geo = "found"
     /\ state.weather_data # NoWeather
     /\ \E q \in DOMAIN wardrobe : \E item \in Range(wardrobe[q]) : item.category = "top")
        => /\ state.wardrobe_selection # NoSelection
           /\ state.final_recommendation # NoOutfit
           /\ state.final_recommendation.selected_top # NoItem
           /\ state.response \notin {NoResponse, <<>>}

\* C24: when the router returns an action outside the four routed ones (a
\* null action, "chitchat", "unknown"), the request runs the
\* full-recommendation path: weather, wardrobe, composition, response.
C24_UnknownActionRunsFullPath ==
    (pc = "returned" /\ action \notin KnownActions \cup {NoAction})
        => /\ flow = _run_full_recommendation_flow
           /\ trace = <<"supervisor">> \o _run_full_recommendation_flow

\* C25: in the history the chat loop builds, and so in every turn handed to
\* the router and to the response composer, each pair is a user message
\* followed by the bot's reply: the entries alternate "User: ", "Bot: ".
C25_HistoryAlternates ==
    \A k \in 1..Len(cli_history) :
        IF k % 2 = 1
        THEN cli_history[k] \in {Prefixed("User: ", m) : m \in Messages}
        ELSE cli_history[k] = Prefixed("Bot: ", PairUp(cli_history)[k \div 2].bot)

\* C26: when populate_wardrobe_from_csv has run with sync_mode=True on a CSV
\* file whose rows all parse, the names of the items in the wardrobe are
\* exactly the names in the CSV file, whatever the wardrobe held before.
C26_SyncMakesNamesEqual ==
    pc = "synced" => get_existing_item_names(wardrobe) = get_csv_item_names(csvfile)

C28_RoutingMetadataKept ==
    [][/\ pc \in {"weather", "wardrobe", "design", "conversation"}
            => /\ Get(state'.metadata, "action", None)
                      = Get(state.metadata, "action", None)
               /\ Get(state'.metadata, "user_message", None)
                      = Get(state.metadata, "user_message", None)
      ]_vars

\* C29: what process_request returns does not depend on the memory stored in
\* the orchestrator: two orchestrators holding different memories, given the
\* same message, thread, history and collaborator answers, return equal
\* states, and the returned conversation_history is the history passed in.
C29_OutcomeIndependentOfMemory ==
    pc = "answered"
        => /\ state = twin.state
           /\ state.conversation_history = twin.history

C29_Witness ==
    /\ pc = "answered"
    /\ nreq = MaxAsks
    /\ get_conversation_history(conversation_memory, thread_id)
           # get_conversation_history(twin.memory, thread_id)
    /\ get_conversation_history(conversation_memory, thread_id) # <<>>
    /\ state.final_recommendation # NoOutfit
    /\ state = twin.state

\* the five candidate lists of a WardrobeSelection
CandidateLists(w) ==
    <<w.available_tops, w.available_bottoms, w.available_footwear,
      w.available_outerwear, w.available_accessories>>

\* states that differ from StateAtWardrobe in the weather snapshot and in
\* the follow-up context
OtherSnapshots ==
    {[StateAtWardrobe EXCEPT !.weather_data = [@ EXCEPT !.temperature = x[1],
                                                        !.description = x[2]],
                             !.followup_context = x[3]] :
        x \in {<<-5, "snow", "business meeting">>, <<30, "clear sky", None>>}}

====
